---- MODULE Spec2Model ----
(***************************************************************************)
(* CommitSmith: the pre-commit pipeline engine (src/src/pipeline.ts), its  *)
(* snapshot manager, and the two workflows that drive it                   *)
(* (forgeCommitFromJournal, performDryRun).                                *)
(*                                                                         *)
(* The repository is modelled as HEAD / index / working tree over a small  *)
(* set of paths, with the git plumbing commands the engine issues given as *)
(* operators on that state.                                                *)
(***************************************************************************)
EXTENDS Integers, Sequences, FiniteSets, TLC

(***************************************************************************)
(* Bounds of the model.                                                    *)
(***************************************************************************)
\* largest configured value of commitSmith.pipeline.maxAiFixAttempts explored
MaxAttempts == 2
\* number of working-tree / index mutations made by step commands in one run
MaxMutations == 1

(***************************************************************************)
(* Repository state.                                                       *)
(***************************************************************************)
F   == "main.ts"            \* a file committed in HEAD
DG  == "d/g"                \* a file in directory d, not in HEAD
LOG == "out.log"            \* a file matched by .gitignore
ART == ".commit-smith/p"    \* a file of the engine's artefact directory

Root == "."
CS   == ".commit-smith"

Paths   == {F, DG, LOG, ART}
Tracked == {F, DG}          \* paths git may hold in the index
Dirs    == {"d", "e", CS}

Absent   == "absent"
Symlink  == "link"
Regular  == {"x", "y"}
Contents == {Absent, Symlink} \cup Regular

Parent(p) ==
  CASE p = DG  -> "d"
    [] p = ART -> CS
    [] OTHER   -> Root

HEAD == [p \in Tracked |-> IF p = F THEN "x" ELSE Absent]

InIndex(r, p) == p \in Tracked /\ r.index[p] # Absent

\* no snapshot taken, no side copy on disk
NoSnapshot == [taken |-> FALSE]
NoSide     == [exists |-> FALSE]

VARIABLES
  ignored,      \* paths excluded by .gitignore
  repo,         \* [index, wt, dirs]
  tmp,          \* the side copy of untracked files (os.tmpdir), or NoSide
  snapshot,     \* the RepoSnapshot held by runPipeline, or NoSnapshot
  before,       \* the repository as it was when the operation began
  mutations,    \* number of mutations step commands have made so far
  pc,           \* position of runPipeline (or of the snapshot manager)
  cfg,          \* getConfig(): the settings read by the engine and the workflows
  wf,           \* the workflow that was invoked: "forge" or "dryRun"
  wpc,          \* position of the workflow
  mode,         \* PipelineMode of the running pipeline
  stepIdx,      \* index into STEP_SEQUENCE of the step being processed
  attempt,      \* runPipeline's attempt counter for the current step
  pending,      \* what the try block ended with: an outcome or an exception
  outcome,      \* the PipelineOutcome runPipeline returned, or NoOutcome
  restoredWith, \* the snapshots restoreRepoSnapshot was invoked with, in order
  stats,        \* per step: executions, failures, fix requests, fixes applied, ...
  journal,      \* number of entries under "current" in the journal file
  forge         \* what the workflow did: message, commits, pushes, clears, result

repoVars == <<ignored, repo, tmp, snapshot, before, mutations>>
pipeVars == <<mode, stepIdx, attempt, pending, outcome, restoredWith, stats>>
flowVars == <<cfg, wf, wpc, journal, forge>>
vars == <<ignored, repo, tmp, snapshot, before, mutations, pc,
          cfg, wf, wpc, mode, stepIdx, attempt, pending, outcome, restoredWith,
          stats, journal, forge>>

\* every directory holding a file exists
WellFormed(r) ==
  \A p \in Paths : r.wt[p] # Absent /\ Parent(p) # Root => Parent(p) \in r.dirs

FilesIn(wt, d) == {p \in Paths : Parent(p) = d /\ wt[p] # Absent}

\* git removes a directory it has emptied by deleting a file, and creates
\* the directories of the files it writes
GitSetWt(r, wtNew) ==
  LET emptied == {d \in r.dirs : FilesIn(r.wt, d) # {} /\ FilesIn(wtNew, d) = {}}
      needed  == {Parent(p) : p \in {q \in Paths : wtNew[q] # Absent}} \ {Root}
  IN  [r EXCEPT !.wt = wtNew, !.dirs = (r.dirs \ emptied) \cup needed]

\* git reset --hard
ResetHard(r) ==
  LET touched == {p \in Tracked : r.index[p] # Absent \/ HEAD[p] # Absent}
      wtNew   == [p \in Paths |-> IF p \in touched THEN HEAD[p] ELSE r.wt[p]]
  IN  [GitSetWt(r, wtNew) EXCEPT !.index = HEAD]

\* git clean -fd -e .commit-smith -e .commit-smith/**
GitClean(r, ign) ==
  LET victims == {p \in Paths : /\ r.wt[p] # Absent
                                /\ ~InIndex(r, p)
                                /\ p \notin ign
                                /\ Parent(p) # CS}
      wtNew   == [p \in Paths |-> IF p \in victims THEN Absent ELSE r.wt[p]]
      gone    == {d \in r.dirs : /\ d # CS
                                 /\ FilesIn(wtNew, d) = {}
                                 /\ \A p \in Tracked : Parent(p) = d => r.index[p] = Absent}
  IN  [r EXCEPT !.wt = wtNew, !.dirs = r.dirs \ gone]

\* git diff --binary --cached
StagedDiff(r) ==
  {[path |-> p, old |-> HEAD[p], new |-> r.index[p]] : p \in {q \in Tracked : HEAD[q] # r.index[q]}}

\* git diff --binary
UnstagedDiff(r) ==
  {[path |-> p, old |-> r.index[p], new |-> r.wt[p]] :
      p \in {q \in Tracked : r.index[q] # Absent /\ r.wt[q] # r.index[q]}}

\* git ls-files --others --exclude-standard
LsFilesOthers(r, ign) ==
  {p \in Paths : r.wt[p] # Absent /\ ~InIndex(r, p) /\ p \notin ign}

\* the '? dir/' entries of git status --porcelain=v2 -z
StatusUntrackedDirs(r, ign) ==
  {d \in Dirs : /\ \E p \in LsFilesOthers(r, ign) : Parent(p) = d
                /\ \A p \in Tracked : Parent(p) = d => r.index[p] = Absent}

\* git status --porcelain: the XY code of every path that has one
PorcelainX(r, p) ==
  IF p \notin Tracked \/ HEAD[p] = r.index[p] THEN " "
  ELSE IF HEAD[p] = Absent THEN "A"
  ELSE IF r.index[p] = Absent THEN "D" ELSE "M"

PorcelainY(r, p) ==
  IF ~InIndex(r, p) THEN " "
  ELSE IF r.wt[p] = r.index[p] THEN " "
  ELSE IF r.wt[p] = Absent THEN "D" ELSE "M"

StatusPorcelain(r, ign) ==
  LET entry(p) == <<PorcelainX(r, p), PorcelainY(r, p)>>
      tracked  == {<<p, entry(p)>> : p \in {q \in Tracked : entry(q) # <<" ", " ">>}}
      others   == LsFilesOthers(r, ign)
      inDir    == {p \in others : Parent(p) \in StatusUntrackedDirs(r, ign)}
  IN  tracked
        \cup {<<p, <<"?", "?">> >> : p \in others \ inDir}
        \cup {<<d, <<"?", "?">> >> : d \in StatusUntrackedDirs(r, ign)}

\* fs.lstat(source).isSymbolicLink()
IsSymbolicLink(c) == c = Symlink

\* the file a link of the model points at holds "x"
LinkTargetData == "x"

\* fs.copyFile: copies the bytes read through the source, so a link is
\* followed and a regular file is written
CopyFile(c) == IF c = Symlink THEN LinkTargetData ELSE c

\* a faulty variant of CopyEntryPreservingSymlink: every entry is copied with
\* fs.copyFile, which reads through a symbolic link
CopyEntryFollowingSymlink(c) == CopyFile(c)

\* copyEntryPreservingSymlink: a link is recreated from its target, anything
\* else goes through fs.copyFile
CopyEntryPreservingSymlink(c) ==
  IF IsSymbolicLink(c) THEN Symlink ELSE CopyFile(c)

\* collectEmptyDirectories: every directory with no file below it
CollectEmptyDirectories(r) == {d \in r.dirs : FilesIn(r.wt, d) = {}}

\* captureRepoSnapshot: the snapshot record and the side copy it writes
CaptureSnapshot(r, ign) ==
  LET untracked == LsFilesOthers(r, ign)
  IN  [taken          |-> TRUE,
       stagedPatch    |-> StagedDiff(r),
       unstagedPatch  |-> UnstagedDiff(r),
       untrackedFiles |-> untracked,
       untrackedDirs  |-> StatusUntrackedDirs(r, ign),
       emptyDirs      |-> CollectEmptyDirectories(r),
       untrackedDir   |-> untracked # {}]

CaptureSide(r, ign) ==
  LET untracked == LsFilesOthers(r, ign)
  IN  IF untracked = {} THEN NoSide
      ELSE [exists |-> TRUE,
            files  |-> [p \in untracked |-> CopyEntryPreservingSymlink(r.wt[p])]]

\* git apply --binary [--index] -
PatchApplies(r, patch, withIndex) ==
  \A e \in patch : r.wt[e.path] = e.old /\ (withIndex => r.index[e.path] = e.old)

GitApply(r, patch, withIndex) ==
  LET hit(p)  == {e \in patch : e.path = p}
      new(p)  == (CHOOSE e \in hit(p) : TRUE).new
      wtNew   == [p \in Paths |-> IF hit(p) # {} THEN new(p) ELSE r.wt[p]]
      idxNew  == [p \in Tracked |-> IF withIndex /\ hit(p) # {} THEN new(p) ELSE r.index[p]]
  IN  [GitSetWt(r, wtNew) EXCEPT !.index = idxNew]

\* the copy loop of restoreRepoSnapshot fails when the side copy is gone or
\* when a link is to be created over an existing entry
CopyBackFails(r, snap, side) ==
  snap.untrackedDir /\
    (\/ ~side.exists
     \/ \E p \in snap.untrackedFiles : IsSymbolicLink(side.files[p]) /\ r.wt[p] # Absent)

CopyBack(r, snap, side) ==
  IF ~snap.untrackedDir THEN r
  ELSE LET wtNew == [p \in Paths |-> IF p \in snap.untrackedFiles
                                       THEN CopyEntryPreservingSymlink(side.files[p])
                                       ELSE r.wt[p]]
           made  == {Parent(p) : p \in snap.untrackedFiles} \ {Root}
       IN  [r EXCEPT !.wt = wtNew, !.dirs = r.dirs \cup made]

MkDirs(r, snap) == [r EXCEPT !.dirs = r.dirs \cup snap.untrackedDirs \cup snap.emptyDirs]

RestoreSteps == 6

\* a faulty variant of RestoreUpTo: the unstaged patch is applied before the
\* staged one
RECURSIVE RestoreUpToUnstagedFirst(_, _, _, _)
RestoreUpToUnstagedFirst(r, snap, side, k) ==
  IF k = 0 THEN r
  ELSE LET prev == RestoreUpToUnstagedFirst(r, snap, side, k - 1)
       IN  CASE k = 1 -> ResetHard(prev)
             [] k = 2 -> GitClean(prev, ignored)
             [] k = 3 -> IF snap.unstagedPatch # {} /\ PatchApplies(prev, snap.unstagedPatch, FALSE)
                           THEN GitApply(prev, snap.unstagedPatch, FALSE) ELSE prev
             [] k = 4 -> IF snap.stagedPatch # {} /\ PatchApplies(prev, snap.stagedPatch, TRUE)
                           THEN GitApply(prev, snap.stagedPatch, TRUE) ELSE prev
             [] k = 5 -> CopyBack(prev, snap, side)
             [] OTHER -> MkDirs(prev, snap)

\* restoreRepoSnapshot, cut after its first k actions
RECURSIVE RestoreUpTo(_, _, _, _)
RestoreUpTo(r, snap, side, k) ==
  IF k = 0 THEN r
  ELSE LET prev == RestoreUpTo(r, snap, side, k - 1)
       IN  CASE k = 1 -> ResetHard(prev)
             [] k = 2 -> GitClean(prev, ignored)
             [] k = 3 -> IF snap.stagedPatch # {} THEN GitApply(prev, snap.stagedPatch, TRUE) ELSE prev
             [] k = 4 -> IF snap.unstagedPatch # {} THEN GitApply(prev, snap.unstagedPatch, FALSE) ELSE prev
             [] k = 5 -> CopyBack(prev, snap, side)
             [] OTHER -> MkDirs(prev, snap)

\* the first action of restoreRepoSnapshot that cannot succeed, or 0
RestoreBlockedAt(r, snap, side) ==
  IF snap.stagedPatch # {} /\ ~PatchApplies(RestoreUpTo(r, snap, side, 2), snap.stagedPatch, TRUE) THEN 3
  ELSE IF snap.unstagedPatch # {} /\ ~PatchApplies(RestoreUpTo(r, snap, side, 3), snap.unstagedPatch, FALSE) THEN 4
  ELSE IF CopyBackFails(RestoreUpTo(r, snap, side, 4), snap, side) THEN 5
  ELSE 0

RestoreRepoSnapshot(r, snap, side) == RestoreUpTo(r, snap, side, RestoreSteps)

(***************************************************************************)
(* Repository states the workflows may start from.                         *)
(***************************************************************************)
\* contents a path takes in the model: f is a regular file, d/g a regular
\* file or a link, the ignored file and the artefact are regular files
ContentsOf(p) ==
  CASE p = F  -> {Absent, "x", "y"}
    [] p = DG -> {Absent, "x", Symlink}
    [] OTHER  -> {Absent, "x"}

RepoStates ==
  {r \in [index : [Tracked -> Contents],
          wt    : [Paths -> Contents],
          dirs  : SUBSET Dirs] :
     /\ WellFormed(r)
     /\ \A p \in Paths : r.wt[p] \in ContentsOf(p)
     /\ \A p \in Tracked : r.index[p] \in ContentsOf(p)}

(***************************************************************************)
(* What a step command (or anything else running between capture and       *)
(* restore) may do to the working tree and the index.                      *)
(***************************************************************************)
WriteFile(r, p, c) ==
  [r EXCEPT !.wt[p] = c, !.dirs = IF Parent(p) = Root THEN @ ELSE @ \cup {Parent(p)}]

DeleteFile(r, p) == [r EXCEPT !.wt[p] = Absent]

GitAdd(r, p) == [r EXCEPT !.index[p] = r.wt[p]]

MakeDir(r, d) == [r EXCEPT !.dirs = @ \cup {d}]

RemoveDir(r, d) == [r EXCEPT !.dirs = @ \ {d}]

TreeMutations(r) ==
  {WriteFile(r, p, c) : p \in Paths, c \in {"x", "y", Symlink}} \cup
  {DeleteFile(r, p) : p \in Paths} \cup
  {GitAdd(r, p) : p \in {q \in Tracked : q \notin ignored}} \cup
  {MakeDir(r, d) : d \in Dirs} \cup
  {RemoveDir(r, d) : d \in {e \in r.dirs : FilesIn(r.wt, e) = {}}}

Mutated(r) == {m \in TreeMutations(r) : m \in RepoStates /\ m # r}

\* a faulty variant of STEP_SEQUENCE: the steps run in another order
STEP_SEQUENCE_Reordered == <<"tests", "typecheck", "format">>

(***************************************************************************)
(* Configuration, steps, outcomes.                                         *)
(***************************************************************************)
STEP_SEQUENCE == <<"format", "typecheck", "tests">>
Steps  == {STEP_SEQUENCE[i] : i \in 1..Len(STEP_SEQUENCE)}
NoStep == "none"

\* `[pipeline failed at ${step.id}: see OUTPUT > CommitSmith]`
Annotation(s) == [failedAt |-> s]
NoAnnotation  == [failedAt |-> NoStep]

Outcome(status, failed, annotation, suppress) ==
  [status |-> status, failedStep |-> failed,
   commitAnnotation |-> annotation, suppressAutoPush |-> suppress]
NoOutcome  == [status |-> "none"]
Thrown(by) == [status |-> "thrown", by |-> by]

\* a faulty variant of IsDryRun: the mode is not consulted
IsDryRunNever == FALSE

\* a faulty variant of IsDryRun: every run is treated as a dry run
IsDryRunAlways == TRUE

IsDryRun == mode = "dry-run"

\* the command strings of the model: the one configured for a step, the
\* non-mutating variant derived from a format command, and a blank one
ConfiguredCommand == "npm run format:fix"
CheckVariant      == "npm run format:check"
Blank             == " "

\* getConfig: the command of a step that has none is the empty string, or
\* for the tests step a blank one
BaseCommand(config, s) ==
  IF s \in config.commands THEN ConfiguredCommand
  ELSE IF s = "tests" THEN Blank ELSE ""

\* command.trim()
Trim(command) == IF command = Blank THEN "" ELSE command

\* a faulty variant of TranslateFormatCommandForDryRun: the command is passed on
TranslateFormatCommandUnchanged(config) ==
  [skip |-> Trim(BaseCommand(config, "format")) = "", command |-> Trim(BaseCommand(config, "format"))]

\* translateFormatCommandForDryRun: a format command runs in a dry run only
\* as the non-mutating variant of it that the package scripts hold
TranslateFormatCommandForDryRun(config) ==
  IF "format" \in config.commands /\ config.formatCheckVariant
    THEN [skip |-> FALSE, command |-> CheckVariant]
    ELSE [skip |-> TRUE, command |-> ""]

\* buildStepDefinitions: the resolved command of every step
BuildStepDefinitions(config, m) ==
  [s \in Steps |->
     LET baseCommand == BaseCommand(config, s)
     IN  IF m # "dry-run" THEN baseCommand
         ELSE IF s = "format"
           THEN LET result == TranslateFormatCommandForDryRun(config)
                IN  IF result.skip THEN "" ELSE result.command
         ELSE baseCommand]

\* lines 114-115: trimmedCommand.length === 0 skips the step
TrimmedCommand(s) == Trim(BuildStepDefinitions(cfg, mode)[s])
HasCommand(s) == TrimmedCommand(s) # ""

CurStep == STEP_SEQUENCE[stepIdx]

InitStats ==
  [execs      |-> [s \in Steps |-> 0],        \* executions of the step's command
   fails      |-> [s \in Steps |-> 0],        \* executions that exited non-zero
   fixes      |-> [s \in Steps |-> 0],        \* generateFix requests
   applied    |-> [s \in Steps |-> 0],        \* fix attempts that returned true
   asks       |-> [s \in Steps |-> 0],        \* calls of the decision resolver
   answer     |-> [s \in Steps |-> "none"],   \* what the onDecisionRequired hook did
   decision   |-> [s \in Steps |-> "none"],   \* what resolveDecision returned
   retries    |-> [s \in Steps |-> 0],        \* executions bought by a retry decision
   reported   |-> [s \in Steps |-> "none"],   \* success flag of the last onStepComplete
   okAttempt  |-> [s \in Steps |-> -1],       \* attempt of the StepResult reported as success
   exhausted  |-> [s \in Steps |-> FALSE],   \* the retry loop ended without success
   skipped    |-> [s \in Steps |-> FALSE],   \* the skip reason of the step was logged
   ran        |-> [s \in Steps |-> ""],      \* the command last executed for the step
   starts     |-> [s \in Steps |-> 0],       \* onStepStart events
   completes  |-> [s \in Steps |-> 0],       \* onStepComplete events
   unexecuted |-> [s \in Steps |-> 0]]       \* onStepComplete events whose result no execution returned

(***************************************************************************)
(* Staging (stageRelevantChanges, stageModified) and AI fixes.             *)
(***************************************************************************)
\* the patterns of .commit-smith-ignore
IgnoreRules == {LOG}

\* isIgnored: minimatch of the file against the rules
IsIgnored(file, rules) == file \in rules

\* what line.trim() followed by slice(3) leaves of a status line whose X
\* column is blank: the leading blank is trimmed, so the cut takes the first
\* character of the path as well
CutAfterTrim(p) ==
  CASE p = F  -> "ain.ts"
    [] p = DG -> "/g"
    [] OTHER  -> ""

\* listChangedFiles: the names parsed out of git status --porcelain
ListChangedFiles(r) ==
  {IF e[2][1] = " " THEN CutAfterTrim(e[1]) ELSE e[1] : e \in StatusPorcelain(r, ignored)} \ {""}

\* repo.add(uris): git add of paths that match nothing fails
RepoAddFails(r, names) ==
  \E n \in names :
     /\ n \notin r.dirs
     /\ ~(n \in Paths /\ (r.wt[n] # Absent \/ InIndex(r, n)))

RepoAdd(r, names) ==
  [r EXCEPT !.index = [p \in Tracked |->
      IF p \in names \/ Parent(p) \in names THEN r.wt[p] ELSE r.index[p]]]

\* repo.addDot(): git add . puts every change git does not ignore into the index
AddDot(r) ==
  [r EXCEPT !.index = [p \in Tracked |-> IF p \in ignored THEN r.index[p] ELSE r.wt[p]]]

\* stageModified, line 25: without a non-empty file list everything is staged
UsesAddDot(files) == files = {}

\* stageModified(repo, files)
StageModified(r, files) == IF UsesAddDot(files) THEN AddDot(r) ELSE RepoAdd(r, files)

\* a faulty variant of StageRelevantChanges: an empty list is passed on too
StageRelevantChangesBlanket(r) ==
  LET changedFiles == ListChangedFiles(r)
      allowed      == {file \in changedFiles : ~IsIgnored(file, IgnoreRules)}
  IN  IF RepoAddFails(r, allowed) THEN [threw |-> TRUE, repo |-> r, calls |-> <<allowed>>]
      ELSE [threw |-> FALSE, repo |-> StageModified(r, allowed), calls |-> <<allowed>>]

\* stageRelevantChanges: whether it threw, the repository it leaves, and the
\* file lists it called stageModified with
StageRelevantChanges(r) ==
  LET changedFiles == ListChangedFiles(r)
      allowed      == {file \in changedFiles : ~IsIgnored(file, IgnoreRules)}
  IN  IF allowed = {} THEN [threw |-> FALSE, repo |-> r, calls |-> <<>>]
      ELSE IF RepoAddFails(r, allowed) THEN [threw |-> TRUE, repo |-> r, calls |-> <<allowed>>]
      ELSE [threw |-> FALSE, repo |-> StageModified(r, allowed), calls |-> <<allowed>>]

\* paths a diff header may name outside the repository
SECRET == "../secret"
ABS    == "/etc/passwd"

\* a section of a unified diff with its --- a/<path> and +++ b/<path> lines
Section(p, old, new) == [path |-> p, old |-> old, new |-> new, header |-> TRUE]

\* a git section that carries no ---/+++ lines (rename from/to, mode change)
Bare(p, old, new) == [path |-> p, old |-> old, new |-> new, header |-> FALSE]

\* the answers of the fix service: an error or an empty diff, or a diff given
\* as the sequence of its sections
FixError == <<>>
FixResponses ==
  { FixError,
    <<Section(F, "x", "y")>>,
    <<Section(DG, Absent, "x")>>,
    <<Section(LOG, "x", Absent)>>,
    <<Section(F, "x", "y"), Section(LOG, "x", Absent)>>,
    <<Section(SECRET, "x", "y")>>,
    <<Section(ABS, "x", "y")>>,
    <<Section(F, "x", "y"), Section(SECRET, "x", "y")>>,
    <<Section(F, "x", "y"), Bare(LOG, "x", Absent), Bare(DG, Absent, "x")>> }

\* normalizeDiffPath: pathPart.includes('..') and pathPart.startsWith('/')
ContainsTraversal(p) == p = SECRET
IsAbsolute(p) == p = ABS

\* validateUnifiedDiff: the diff is not empty and begins with a header pair
\* whose two paths are neither absolute nor hold a '..'; the regular
\* expression is anchored at the start of the text, so only the first pair
\* is looked at
ValidateUnifiedDiff(diff) ==
  /\ diff # <<>>
  /\ diff[1].header
  /\ ~ContainsTraversal(diff[1].path) /\ ~IsAbsolute(diff[1].path)

\* extractPatchedFiles: the paths of the +++ b/ and --- a/ lines
ExtractPatchedFiles(diff) == {diff[i].path : i \in {k \in 1..Len(diff) : diff[k].header}}

\* every path a diff names, with or without header lines
TouchedFiles(diff) == {diff[i].path : i \in 1..Len(diff)}

\* the changes git apply makes for a diff
Changes(diff) ==
  {[path |-> diff[i].path, old |-> diff[i].old, new |-> diff[i].new] : i \in 1..Len(diff)}

\* a faulty variant of GitApplyCheck: the check-only run is left out
GitApplyUnchecked(r, diff) == TRUE

\* applyPatch, first command: git apply --check refuses a path outside the
\* working tree and a hunk that does not match
GitApplyCheck(r, diff) ==
  /\ \A f \in TouchedFiles(diff) : f \in Paths
  /\ PatchApplies(r, Changes(diff), FALSE)

\* capturePatch of performDryRun: writes patch-NN.diff into the artefact directory
CapturePatch(r) == WriteFile(r, ART, "x")

FixResult(applied, r, checked, patched, captured, staged) ==
  [applied |-> applied, repo |-> r,
   checked |-> checked,       \* git apply --check was run
   patched |-> patched,       \* git apply was run
   captured |-> captured,     \* the diff was handed to onDryRunPatch
   staged |-> staged]         \* the files handed to stageModified

\* a faulty variant of AttemptAiFix: every attempt is reported as applied
AttemptAiFixOptimistic(r, resp, m, captureOk) == FixResult(TRUE, r, FALSE, FALSE, FALSE, {})

\* attemptAiFix
AttemptAiFix(r, resp, m, captureOk) ==
  LET affectedFiles  == ExtractPatchedFiles(resp)
      permittedFiles == {file \in affectedFiles : ~IsIgnored(file, IgnoreRules)}
  IN  IF ~ValidateUnifiedDiff(resp) THEN FixResult(FALSE, r, FALSE, FALSE, FALSE, {})
      ELSE IF permittedFiles = {} THEN FixResult(FALSE, r, FALSE, FALSE, FALSE, {})
      ELSE IF permittedFiles # affectedFiles THEN FixResult(FALSE, r, FALSE, FALSE, FALSE, {})
      ELSE IF m = "dry-run"
        THEN IF captureOk THEN FixResult(TRUE, CapturePatch(r), FALSE, FALSE, TRUE, {})
                          ELSE FixResult(FALSE, r, FALSE, FALSE, TRUE, {})
      ELSE IF ~GitApplyCheck(r, resp) THEN FixResult(FALSE, r, TRUE, FALSE, FALSE, {})
      ELSE LET patched == GitApply(r, Changes(resp), FALSE)
           IN  IF RepoAddFails(patched, permittedFiles)
                 THEN FixResult(FALSE, patched, TRUE, TRUE, FALSE, permittedFiles)
                 ELSE FixResult(TRUE, StageModified(patched, permittedFiles), TRUE, TRUE,
                                FALSE, permittedFiles)

\* what one run of a step command may do to the tree
StepCommandEffects(r) ==
  {m \in {WriteFile(r, F, "y"), DeleteFile(r, F), WriteFile(r, LOG, "x")} :
     m \in RepoStates /\ m # r}

(***************************************************************************)
(* runPipeline.                                                            *)
(***************************************************************************)
Bump(st, field, s) == [st EXCEPT ![field][s] = @ + 1]

\* line 98, hooks = options.hooks ?? {}: the two workflows pass their hooks,
\* a caller that passes only the repository leaves every hook undefined
HooksGiven == wf # "direct"

\* hooks.onStepStart?.({ step, attempt })
OnStepStart(st, s) == IF HooksGiven THEN Bump(st, "starts", s) ELSE st

\* hooks.onStepComplete?.(result)
OnStepComplete(st, s) == IF HooksGiven THEN Bump(st, "completes", s) ELSE st

\* line 161: onStepComplete with a result object built on the spot
OnStepCompleteBuilt(st, s) ==
  IF HooksGiven THEN Bump(Bump(st, "completes", s), "unexecuted", s) ELSE st

\* a faulty variant of Skipped: the outcome suppresses the push
SkippedSuppressing == Outcome("skipped", NoStep, NoAnnotation, TRUE)

\* line 104: return { status: 'skipped', suppressAutoPush: false }
Skipped == Outcome("skipped", NoStep, NoAnnotation, FALSE)

\* lines 102-105: the pipeline is disabled
RunPipelineDisabled ==
  /\ wpc = "pipeline" /\ pc = "start"
  /\ ~cfg.pipelineEnable
  /\ outcome' = Skipped
  /\ pc' = "returned"
  /\ UNCHANGED <<repoVars, cfg, wf, wpc, journal, forge,
                 mode, stepIdx, attempt, pending, restoredWith, stats>>

\* a faulty variant of Reject: the error is caught and the run reported complete
RejectSwallowed(by) ==
  /\ pending' = Thrown(by)
  /\ pc' = "returned"
  /\ outcome' = Outcome("completed", NoStep, NoAnnotation, FALSE)

\* an await outside the try block (lines 107-110) or inside the finally block
\* (line 228) fails: nothing catches the error and the promise of runPipeline
\* rejects with it
Reject(by) ==
  /\ pending' = Thrown(by)
  /\ pc' = "rejected"
  /\ UNCHANGED outcome

\* lines 107-110: step definitions, ignore rules and, in a dry run, the
\* snapshot; all of it runs before the try block
PreparePipeline ==
  /\ wpc = "pipeline" /\ pc = "start"
  /\ cfg.pipelineEnable
  /\ \/ /\ snapshot' = IF IsDryRun THEN CaptureSnapshot(repo, ignored) ELSE NoSnapshot
        /\ tmp' = IF IsDryRun THEN CaptureSide(repo, ignored) ELSE NoSide
        /\ stepIdx' = 1
        /\ pc' = "step"
        /\ UNCHANGED <<pending, outcome>>
     \/ \* readIgnorePatterns fails with something other than ENOENT
        /\ Reject("readIgnorePatterns")
        /\ UNCHANGED <<snapshot, tmp, stepIdx>>
     \/ \* a git query or the side copy of captureRepoSnapshot fails
        /\ IsDryRun
        /\ Reject("captureRepoSnapshot")
        /\ UNCHANGED <<snapshot, tmp, stepIdx>>
  /\ UNCHANGED <<ignored, repo, before, mutations, cfg, wf, wpc, journal, forge,
                 mode, attempt, restoredWith, stats>>

\* lines 112-125 and 225: the head of the for loop
StepBegin ==
  /\ wpc = "pipeline" /\ pc = "step"
  /\ \/ /\ stepIdx > Len(STEP_SEQUENCE)
        /\ pending' = Outcome("completed", NoStep, NoAnnotation, FALSE)
        /\ pc' = "finally"
        /\ UNCHANGED <<stepIdx, attempt, stats>>
     \/ \* lines 115-119: the skip reason is logged
        /\ stepIdx <= Len(STEP_SEQUENCE)
        /\ ~HasCommand(CurStep)
        /\ stats' = [stats EXCEPT !.skipped[CurStep] = TRUE]
        /\ stepIdx' = stepIdx + 1
        /\ UNCHANGED <<pc, pending, attempt>>
     \/ /\ stepIdx <= Len(STEP_SEQUENCE)
        /\ HasCommand(CurStep)
        /\ stats' = OnStepStart(stats, CurStep)
        /\ attempt' = 0
        /\ pc' = "exec"
        /\ UNCHANGED <<stepIdx, pending>>
     \/ \* the onStepStart hook throws
        /\ HooksGiven
        /\ stepIdx <= Len(STEP_SEQUENCE)
        /\ HasCommand(CurStep)
        /\ stats' = OnStepStart(stats, CurStep)
        /\ pending' = Thrown("onStepStart")
        /\ pc' = "finally"
        /\ UNCHANGED <<stepIdx, attempt>>
  /\ UNCHANGED <<repoVars, cfg, wf, wpc, journal, forge,
                 mode, outcome, restoredWith>>

\* how execAsync(step.command) may end: the command exits with 0 or with
\* another code, the shell cannot be spawned (the child emits 'error'), or
\* exec throws before a child exists
ExecOutcomes == {"exit0", "exitNonZero", "spawnError", "spawnThrow"}
SpawnFailures == {"spawnError", "spawnThrow"}

\* the error execAsync rejects with: the promisified exec copies the collected
\* stdout and stderr, empty strings when the child never ran, onto the error
\* it was called back with; an error thrown by exec itself has neither
ExecError(o) ==
  CASE o = "exitNonZero" -> [hasStderr |-> TRUE,  stderr |-> "output", message |-> "Command failed"]
    [] o = "spawnError"  -> [hasStderr |-> TRUE,  stderr |-> "",       message |-> "spawn ENOENT"]
    [] OTHER             -> [hasStderr |-> FALSE, stderr |-> "",       message |-> "invalid argument"]

\* executeStep, lines 300-314: stderr is executionError.stderr ?? error.message
ExecuteStepResult(o) ==
  IF o = "exit0" THEN [success |-> TRUE, stderr |-> ""]
  ELSE LET executionError == ExecError(o)
       IN  [success |-> FALSE,
            stderr  |-> IF executionError.hasStderr THEN executionError.stderr
                                                    ELSE executionError.message]

\* the command of a step runs: it may touch the tree
CommandRuns(r2, m2) ==
  \/ r2 = repo /\ m2 = mutations
  \/ mutations < MaxMutations /\ r2 \in StepCommandEffects(repo) /\ m2 = mutations + 1

\* a faulty variant of BudgetSpent: one fix attempt too many is allowed
BudgetSpentLate(a, config) == a >= config.pipelineMaxAiFixAttempts + 1

\* line 141: if (attempt >= config.pipelineMaxAiFixAttempts) break
BudgetSpent(a, config) == a >= config.pipelineMaxAiFixAttempts

\* lines 127-144: one execution inside the retry loop
ExecuteStep ==
  /\ wpc = "pipeline" /\ pc = "exec"
  /\ LET s == CurStep IN
     \E o \in ExecOutcomes :
       /\ CommandRuns(repo', mutations')
       /\ o \in SpawnFailures => repo' = repo
       /\ IF ExecuteStepResult(o).success
            THEN /\ stats' = [OnStepComplete(Bump(stats, "execs", s), s) EXCEPT
                                !.reported[s] = "success", !.okAttempt[s] = attempt,
                                !.ran[s] = TrimmedCommand(s)]
                 /\ IF ~IsDryRun /\ (s = "format" \/ attempt > 0)
                      THEN pc' = "stage" /\ UNCHANGED stepIdx
                      ELSE pc' = "step" /\ stepIdx' = stepIdx + 1
            ELSE /\ stats' = [Bump(Bump(stats, "execs", s), "fails", s) EXCEPT
                                !.ran[s] = TrimmedCommand(s)]
                 /\ pc' = IF BudgetSpent(attempt, cfg) THEN "failed" ELSE "fix"
                 /\ UNCHANGED stepIdx
  /\ UNCHANGED <<ignored, tmp, snapshot, before, cfg, wf, wpc, journal, forge,
                 mode, attempt, pending, outcome, restoredWith>>

\* lines 146-166: the AI fix after a failed execution
RequestAiFix ==
  /\ wpc = "pipeline" /\ pc = "fix"
  /\ LET s == CurStep IN
     \E resp \in FixResponses, captureOk \in BOOLEAN :
       LET fix == AttemptAiFix(repo, resp, mode, captureOk) IN
       /\ IsDryRun \/ captureOk
       /\ repo' = fix.repo
       /\ IF ~fix.applied
            THEN /\ stats' = Bump(stats, "fixes", s)
                 /\ pc' = "failed"
                 /\ UNCHANGED <<stepIdx, attempt>>
          ELSE IF IsDryRun
            THEN /\ stats' = [OnStepCompleteBuilt(Bump(Bump(stats, "fixes", s), "applied", s), s)
                                EXCEPT !.reported[s] = "success", !.okAttempt[s] = attempt + 1]
                 /\ pc' = "step"
                 /\ stepIdx' = stepIdx + 1
                 /\ UNCHANGED attempt
            ELSE /\ stats' = OnStepStart(Bump(Bump(stats, "fixes", s), "applied", s), s)
                 /\ attempt' = attempt + 1
                 /\ pc' = "exec"
                 /\ UNCHANGED stepIdx
  /\ UNCHANGED <<ignored, tmp, snapshot, before, mutations, cfg, wf, wpc, journal, forge,
                 mode, pending, outcome, restoredWith>>

\* lines 135-137 and 214-216: stageRelevantChanges after a success
StageChanges ==
  /\ wpc = "pipeline" /\ pc = "stage"
  /\ LET staged == StageRelevantChanges(repo) IN
     IF staged.threw
       THEN /\ pending' = Thrown("stageRelevantChanges")
            /\ pc' = "finally"
            /\ UNCHANGED <<repo, stepIdx>>
       ELSE /\ repo' = staged.repo
            /\ stepIdx' = stepIdx + 1
            /\ pc' = "step"
            /\ UNCHANGED pending
  /\ UNCHANGED <<ignored, tmp, snapshot, before, mutations, cfg, wf, wpc, journal, forge,
                 mode, attempt, outcome, restoredWith, stats>>

\* a faulty variant of Aborted: the outcome carries the annotation as well
AbortedAnnotated(s) == Outcome("aborted", s, Annotation(s), FALSE)

Aborted(s) == Outcome("aborted", s, NoAnnotation, FALSE)

\* a faulty variant of AbortOnFailure: the test is inverted
AbortOnFailureInverted(config) == ~config.pipelineAbortOnFailure

\* line 180: if (config.pipelineAbortOnFailure)
AbortOnFailure(config) == config.pipelineAbortOnFailure

\* lines 169-183: the retry loop ended without success
StepFailed ==
  /\ wpc = "pipeline" /\ pc = "failed"
  /\ LET s == CurStep IN
     /\ stats' = [OnStepComplete(stats, s) EXCEPT
                     !.reported[s] = "failure", !.exhausted[s] = TRUE]
     /\ \/ \* the onStepComplete hook throws
           /\ HooksGiven
           /\ pending' = Thrown("onStepComplete")
           /\ pc' = "finally"
        \/ /\ AbortOnFailure(cfg)
           /\ pending' = Aborted(s)
           /\ pc' = "finally"
        \/ /\ ~AbortOnFailure(cfg)
           /\ pc' = "decide"
           /\ UNCHANGED pending
  /\ UNCHANGED <<repoVars, cfg, wf, wpc, journal, forge,
                 mode, stepIdx, attempt, outcome, restoredWith>>

\* what the onDecisionRequired hook may do, and "absent" for no hook at all
Decisions == {"commitAnyway", "retry", "abort", "throws"}
OnDecisionRequired == IF HooksGiven THEN Decisions ELSE {"absent"}

\* a faulty variant of ResolveDecision: a missing or throwing hook lets the
\* commit go ahead
ResolveDecisionLenient(answer) ==
  IF answer \in {"absent", "throws"} THEN "commitAnyway" ELSE answer

\* resolveDecision, lines 443-454: no hook, or a hook that throws, is an abort
ResolveDecision(answer) == IF answer \in {"absent", "throws"} THEN "abort" ELSE answer

\* a faulty variant of CommitAnyway: the outcome leaves auto-push on
CommitAnywayPushing(s) == Outcome("commit-anyway", s, Annotation(s), FALSE)

\* lines 195-203: the outcome of a commitAnyway decision
CommitAnyway(s) == Outcome("commit-anyway", s, Annotation(s), TRUE)

\* lines 185-221: the decision and what follows from it
DecideAfterFailure ==
  /\ wpc = "pipeline" /\ pc = "decide"
  /\ LET s == CurStep IN
     \E answer \in OnDecisionRequired :
       LET decision == ResolveDecision(answer) IN
       /\ stats' = [Bump(stats, "asks", s) EXCEPT !.answer[s] = answer,
                                                   !.decision[s] = decision]
       /\ CASE decision = "commitAnyway" ->
                 /\ pending' = CommitAnyway(s)
                 /\ pc' = "finally"
            [] decision = "retry" ->
                 /\ pc' = "retry"
                 /\ UNCHANGED pending
            [] OTHER ->
                 /\ pending' = Aborted(s)
                 /\ pc' = "finally"
  /\ UNCHANGED <<repoVars, cfg, wf, wpc, journal, forge,
                 mode, stepIdx, attempt, outcome, restoredWith>>

\* lines 205-218: the single execution a retry decision buys
RetryStep ==
  /\ wpc = "pipeline" /\ pc = "retry"
  /\ LET s == CurStep IN
     \E o \in ExecOutcomes :
       /\ CommandRuns(repo', mutations')
       /\ o \in SpawnFailures => repo' = repo
       /\ IF ExecuteStepResult(o).success
            THEN /\ stats' = [OnStepComplete(Bump(Bump(stats, "execs", s), "retries", s), s)
                                EXCEPT !.reported[s] = "success", !.okAttempt[s] = attempt + 1,
                                       !.ran[s] = BuildStepDefinitions(cfg, mode)[s]]
                 /\ IF ~IsDryRun
                      THEN pc' = "stage" /\ UNCHANGED <<stepIdx, pending>>
                      ELSE pc' = "step" /\ stepIdx' = stepIdx + 1 /\ UNCHANGED pending
            ELSE /\ stats' = [OnStepComplete(Bump(Bump(Bump(stats, "execs", s), "fails", s),
                                                   "retries", s), s)
                                EXCEPT !.reported[s] = "failure",
                                       !.ran[s] = BuildStepDefinitions(cfg, mode)[s]]
                 /\ pending' = Aborted(s)
                 /\ pc' = "finally"
                 /\ UNCHANGED stepIdx
  /\ UNCHANGED <<ignored, tmp, snapshot, before, cfg, wf, wpc, journal, forge,
                 mode, attempt, outcome, restoredWith>>

\* the promise of runPipeline settles with what the try block left
Settle ==
  IF pending.status = "thrown"
    THEN pc' = "rejected" /\ UNCHANGED <<outcome, pending>>
    ELSE pc' = "returned" /\ outcome' = pending /\ UNCHANGED pending

\* a faulty variant of RestoreDue: the restore sits after the try block
\* instead of in a finally, so an exception skips it
RestoreDueUnlessThrown(snap) == snap.taken /\ pending.status # "thrown"

\* line 227: if (snapshot)
RestoreDue(snap) == snap.taken

\* lines 226-230: the finally block
Finally ==
  /\ wpc = "pipeline" /\ pc = "finally"
  /\ IF RestoreDue(snapshot)
       THEN /\ restoredWith' = Append(restoredWith, snapshot)
            /\ LET blocked == RestoreBlockedAt(repo, snapshot, tmp) IN
               \/ /\ blocked = 0
                  /\ repo' = RestoreRepoSnapshot(repo, snapshot, tmp)
                  /\ tmp' = NoSide
                  /\ Settle
               \/ \* a git command or a file operation of the restore fails
                  \E k \in 1..RestoreSteps :
                    /\ blocked = 0 \/ k <= blocked
                    /\ repo' = RestoreUpTo(repo, snapshot, tmp, k - 1)
                    /\ tmp' = tmp
                    /\ Reject("restoreRepoSnapshot")
       ELSE /\ Settle
            /\ UNCHANGED <<repo, tmp, restoredWith>>
  /\ UNCHANGED <<ignored, snapshot, before, mutations, cfg, wf, wpc, journal, forge,
                 mode, stepIdx, attempt, stats>>

(***************************************************************************)
(* The journal and the two workflows that call runPipeline.                *)
(***************************************************************************)
JournalStates ==
  {[exists |-> FALSE, valid |-> TRUE, current |-> <<>>],
   [exists |-> TRUE, valid |-> FALSE, current |-> <<>>],
   [exists |-> TRUE, valid |-> TRUE, current |-> <<>>],
   [exists |-> TRUE, valid |-> TRUE, current |-> <<"entry">>]}

\* DEFAULT_JOURNAL written by initializeJournal when the file is missing
DEFAULT_JOURNAL == [exists |-> TRUE, valid |-> TRUE, current |-> <<>>]

\* a faulty variant of InitializeJournal: createIfMissing is not honoured
InitializeJournalAlways(j, createIfMissing) == IF ~j.exists THEN DEFAULT_JOURNAL ELSE j

\* initializeJournal as readJournal calls it: a missing file is created with
\* the default content unless createIfMissing is false
InitializeJournal(j, createIfMissing) ==
  IF ~j.exists /\ createIfMissing THEN DEFAULT_JOURNAL ELSE j

\* clearCurrent: journal.current = []
ClearCurrent(j) == [j EXCEPT !.current = <<>>]

NoMessage == [source |-> "none", files |-> <<>>, annotation |-> NoAnnotation]
NoSummary == [status |-> "none", failedStep |-> NoStep]
Result(status, failed, pushFailed, annotation) ==
  [status |-> status, failedStep |-> failed, pushFailed |-> pushFailed,
   commitAnnotation |-> annotation]
NoResult == Result("none", NoStep, FALSE, NoAnnotation)
Plain(status) == Result(status, NoStep, FALSE, NoAnnotation)

InitForge ==
  [read |-> <<>>, message |-> NoMessage, commits |-> <<>>, commitCalls |-> 0, pushes |-> 0,
   pushErrors |-> 0, pushFailed |-> FALSE, clears |-> 0, result |-> NoResult,
   summary |-> NoSummary]

Done(result) == wpc' = "done" /\ forge' = [forge EXCEPT !.result = result]

\* a faulty variant of NoPendingEntries: the test is left out
NoPendingEntriesIgnored(j) == FALSE

\* if (!journal.current || journal.current.length === 0)
NoPendingEntries(j) == j.current = <<>>

\* forgeCommitFromJournal, lines 31-39
ForgeStart ==
  /\ wf = "forge" /\ wpc = "idle"
  /\ IF ~journal.exists
       THEN journal' = InitializeJournal(journal, TRUE) /\ Done(Plain("empty"))
            /\ UNCHANGED <<pc, mode>>
     ELSE IF ~journal.valid
       THEN Done(Plain("error")) /\ UNCHANGED <<journal, pc, mode>>
     ELSE IF NoPendingEntries(journal)
       THEN Done(Plain("empty")) /\ UNCHANGED <<journal, pc, mode>>
     ELSE /\ wpc' = "pipeline" /\ pc' = "start" /\ mode' = "execute"
          /\ forge' = [forge EXCEPT !.read = journal.current]
          /\ UNCHANGED journal
  /\ UNCHANGED <<repoVars, cfg, wf, stepIdx, attempt, pending, outcome, restoredWith, stats>>

\* a faulty variant of PipelineAborted: the wrong status is tested
PipelineAbortedMistaken(o) == o.status = "skipped"

\* a faulty variant of PushDue: the pipeline decision is not consulted
PushDueIgnoringDecision(config, o) == config.commitPushAfter

\* line 42: if (outcome.status === 'aborted')
PipelineAborted(o) == o.status = "aborted"

\* line 67: if (config.commitPushAfter && !outcome.suppressAutoPush)
PushDue(config, o) == config.commitPushAfter /\ ~o.suppressAutoPush

\* the paths in the order git prints them
PathOrder == <<ART, DG, F, LOG>>

\* listStagedFiles: git diff --name-only --cached, or nothing when git fails
ListStagedFiles(r, gitOk) ==
  IF gitOk THEN SelectSeq(PathOrder, LAMBDA p : p \in {e.path : e \in StagedDiff(r)})
           ELSE <<>>

\* file names the offline message may be given, one with a leading "./"
DOTTED == "./x"
OfflineNames == {F, DG, DOTTED}
RECURSIVE SeqsOver(_, _)
SeqsOver(S, n) ==
  IF n = 0 THEN {<<>>}
  ELSE LET shorter == SeqsOver(S, n - 1)
       IN  shorter \cup {Append(q, x) : q \in {t \in shorter : Len(t) = n - 1}, x \in S}
MaxNames == 4
OfflineInputs == SeqsOver(OfflineNames, MaxNames)

\* file.replace(/^\.\//, '')
StripDotSlash(file) == IF file = DOTTED THEN "x" ELSE file

\* normalizedFiles.slice(0, 3)
MaxListed == 3

\* a faulty variant of BuildOfflineCommitMessage: every staged file is listed
BuildOfflineCommitMessageUncut(stagedFiles) ==
  [source |-> "offline",
   files  |-> [i \in 1..Len(stagedFiles) |-> StripDotSlash(stagedFiles[i])]]

\* buildOfflineCommitMessage: the '[offline mode]' subject and the first
\* three staged files, one per line
BuildOfflineCommitMessage(stagedFiles) ==
  LET normalizedFiles == [i \in 1..Len(stagedFiles) |-> StripDotSlash(stagedFiles[i])]
      listed == IF Len(normalizedFiles) <= MaxListed THEN Len(normalizedFiles) ELSE MaxListed
  IN  [source |-> "offline", files |-> SubSeq(normalizedFiles, 1, listed)]

\* lines 39-62: the outcome of the pipeline and the commit message
ForgeAfterPipeline ==
  /\ wf = "forge" /\ wpc = "pipeline" /\ pc \in {"returned", "rejected"}
  /\ IF pc = "rejected"
       THEN Done(Plain("error"))
     ELSE IF PipelineAborted(outcome)
       THEN Done(Result("pipeline-aborted", outcome.failedStep, FALSE, NoAnnotation))
     ELSE \E source \in {"codex", "offline"}, gitOk \in BOOLEAN :
            LET commitMessage ==
                  IF source = "codex" THEN [source |-> "codex", files |-> <<>>]
                  ELSE BuildOfflineCommitMessage(ListStagedFiles(repo, gitOk))
            IN  /\ source = "codex" => gitOk
                /\ forge' = [forge EXCEPT !.message =
                               [source |-> commitMessage.source, files |-> commitMessage.files,
                                annotation |-> outcome.commitAnnotation]]
                /\ wpc' = "commit"
  /\ UNCHANGED <<repoVars, pc, cfg, wf, journal, pipeVars>>

\* line 64: commit(repo, finalMessage); the commit is recorded, its tree is
\* not read again
ForgeCommit ==
  /\ wf = "forge" /\ wpc = "commit"
  /\ \/ /\ forge' = [forge EXCEPT !.commitCalls = @ + 1,
                                  !.commits = Append(@, forge.message)]
        /\ wpc' = "push"
     \/ \* repo.commit fails
        /\ forge' = [forge EXCEPT !.commitCalls = @ + 1, !.result = Plain("error")]
        /\ wpc' = "done"
  /\ UNCHANGED <<repoVars, pc, cfg, wf, journal, pipeVars>>

\* a faulty variant of PushAttempt: the error of a failing push is not caught
PushAttemptUncaught(pushOk) == [pushFailed |-> FALSE, thrown |-> ~pushOk]

\* lines 69-75: push inside its own try block; a failure sets pushFailed
PushAttempt(pushOk) == [pushFailed |-> ~pushOk, thrown |-> FALSE]

\* lines 67-78: the optional push
ForgePush ==
  /\ wf = "forge" /\ wpc = "push"
  /\ IF PushDue(cfg, outcome)
       THEN \E pushOk \in BOOLEAN :
              LET attempted == PushAttempt(pushOk)
                  errors    == IF pushOk THEN 0 ELSE 1     \* repo.push() rejected
              IN
              IF attempted.thrown
                THEN /\ forge' = [forge EXCEPT !.pushes = @ + 1, !.pushErrors = @ + errors,
                                               !.result = Plain("error")]
                     /\ wpc' = "done"
                ELSE /\ forge' = [forge EXCEPT !.pushes = @ + 1, !.pushErrors = @ + errors,
                                               !.pushFailed = attempted.pushFailed]
                     /\ wpc' = "clear"
       ELSE UNCHANGED forge /\ wpc' = "clear"
  /\ UNCHANGED <<repoVars, pc, cfg, wf, journal, pipeVars>>

\* lines 80-98: clearCurrent and the result
ForgeClear ==
  /\ wf = "forge" /\ wpc = "clear"
  /\ \/ /\ journal' = ClearCurrent(journal)
        /\ wpc' = "done"
        /\ forge' = [forge EXCEPT !.clears = @ + 1, !.result =
             IF outcome.status = "commit-anyway"
               THEN Result("commit-warning", NoStep, forge.pushFailed, outcome.commitAnnotation)
               ELSE Result("commit-success", NoStep, forge.pushFailed, NoAnnotation)]
     \/ \* reading or writing the journal fails
        /\ Done(Plain("error"))
        /\ UNCHANGED journal
  /\ UNCHANGED <<repoVars, pc, cfg, wf, pipeVars>>

\* performDryRun, lines 45-90
DryRunStart ==
  /\ wf = "dryRun" /\ wpc = "idle"
  /\ IF journal.exists /\ ~journal.valid
       THEN Done(Plain("error")) /\ UNCHANGED <<repo, pc, mode>>
     ELSE IF ~journal.exists \/ NoPendingEntries(journal)
       THEN Done(Plain("empty")) /\ UNCHANGED <<repo, pc, mode>>
     ELSE \/ /\ repo' = MakeDir(repo, CS)
             /\ wpc' = "pipeline" /\ pc' = "start" /\ mode' = "dry-run"
             /\ UNCHANGED forge
          \/ \* fs.mkdir of the artefact directory fails
             Done(Plain("error")) /\ UNCHANGED <<repo, pc, mode>>
  /\ journal' = InitializeJournal(journal, FALSE)
  /\ UNCHANGED <<ignored, tmp, snapshot, before, mutations, cfg, wf,
                 stepIdx, attempt, pending, outcome, restoredWith, stats>>

\* a faulty variant of DryRunStatus: only a completed pipeline is reported
\* as completed
DryRunStatusStrict(o) == IF o.status = "completed" THEN "completed" ELSE "aborted"

\* lines 106-110: the status performDryRun reports for a pipeline outcome
DryRunStatus(o) == IF o.status = "aborted" THEN "aborted" ELSE "completed"

\* lines 92-113: the artefacts and the result
DryRunFinish ==
  /\ wf = "dryRun" /\ wpc = "pipeline" /\ pc \in {"returned", "rejected"}
  /\ IF pc = "rejected"
       THEN Done(Plain("error")) /\ UNCHANGED repo
     ELSE \/ /\ repo' = WriteFile(repo, ART, "x")
             /\ wpc' = "done"
             /\ forge' = [forge EXCEPT
                  !.summary = [status |-> outcome.status, failedStep |-> outcome.failedStep],
                  !.result = IF DryRunStatus(outcome) = "aborted"
                               THEN Result("aborted", outcome.failedStep, FALSE, NoAnnotation)
                               ELSE Plain("completed")]
          \/ \* generateCommitMessage or a file write fails
             Done(Plain("error")) /\ UNCHANGED repo
  /\ UNCHANGED <<ignored, tmp, snapshot, before, mutations, pc, cfg, wf, journal, pipeVars>>

\* runPipeline({ repo }): a caller that passes no hooks and no mode
DirectStart ==
  /\ wf = "direct" /\ wpc = "idle"
  /\ wpc' = "pipeline" /\ pc' = "start" /\ mode' = "execute"
  /\ UNCHANGED <<repoVars, cfg, wf, journal, forge,
                 stepIdx, attempt, pending, outcome, restoredWith, stats>>

IdlePipeline ==
  /\ mode = "execute" /\ stepIdx = 1 /\ attempt = 0
  /\ pending = NoOutcome /\ outcome = NoOutcome
  /\ restoredWith = <<>> /\ stats = InitStats

CommandSets == {{}, {"format"}, {"typecheck"}, {"format", "tests"}}

Configs ==
  [pipelineEnable : BOOLEAN, pipelineMaxAiFixAttempts : 0..MaxAttempts,
   pipelineAbortOnFailure : BOOLEAN, commitPushAfter : BOOLEAN,
   commands : CommandSets, formatCheckVariant : BOOLEAN]

\* one representative of the settings a run never reads
Canonical(c, w, j) ==
  /\ (w = "dryRun") => ~c.commitPushAfter
  /\ (w # "dryRun" \/ "format" \notin c.commands) => ~c.formatCheckVariant
  /\ (w = "direct") => ~c.commitPushAfter /\ j = DEFAULT_JOURNAL
  /\ (~c.pipelineEnable \/ (w # "direct" /\ (~j.exists \/ ~j.valid \/ j.current = <<>>))) =>
        /\ c.pipelineMaxAiFixAttempts = 0 /\ ~c.pipelineAbortOnFailure
        /\ c.commands = {} /\ ~c.formatCheckVariant
  /\ (w # "direct" /\ (~j.exists \/ ~j.valid \/ j.current = <<>>)) =>
        c.pipelineEnable /\ ~c.commitPushAfter

\* the working copies a workflow starts from
StartRepos ==
  {[index |-> [p \in Tracked |-> IF p = F THEN staged ELSE Absent],
    wt    |-> [p \in Paths |-> CASE p = F -> edited [] p = DG -> extra [] OTHER -> Absent],
    dirs  |-> IF extra = Absent THEN {} ELSE {"d"}] :
     staged \in {"x", "y"}, edited \in {"x", "y"}, extra \in {Absent, "x"}}

Init ==
  /\ wf \in {"forge", "dryRun", "direct"}
  /\ journal \in JournalStates
  /\ cfg \in Configs
  /\ Canonical(cfg, wf, journal)
  /\ ignored \in CASE wf = "dryRun" -> {{LOG}, {LOG, ART}}
                    [] wf = "direct" -> {{LOG}, {}}
                    [] OTHER         -> {{LOG}}
  /\ repo \in StartRepos
  /\ before = [repo |-> repo, journal |-> journal]
  /\ tmp = NoSide /\ snapshot = NoSnapshot /\ mutations = 0
  /\ pc = "idle" /\ wpc = "idle"
  /\ forge = InitForge
  /\ IdlePipeline

Next ==
  \/ ForgeStart \/ ForgeAfterPipeline \/ ForgeCommit \/ ForgePush \/ ForgeClear
  \/ DryRunStart \/ DryRunFinish \/ DirectStart
  \/ RunPipelineDisabled \/ PreparePipeline \/ StepBegin \/ ExecuteStep
  \/ RequestAiFix \/ StageChanges \/ StepFailed \/ DecideAfterFailure
  \/ RetryStep \/ Finally

Spec == Init /\ [][Next]_vars

(***************************************************************************)
(* forgeCommitFromJournal next to the command line tool: while the forge   *)
(* runs, `commit-smith journal --append` may add entries to the journal.   *)
(***************************************************************************)
\* the entry the command line tool appends
ADDED == "added"

\* number of entries appended while one forge call is under way
MaxAppends == 1

Appended(j) == Cardinality({i \in 1..Len(j.current) : j.current[i] = ADDED})

\* handleJournalCommand: initializeJournal, then addEntry reads the journal,
\* pushes the entry and writes the journal back
AddEntry ==
  /\ wf = "forge" /\ wpc # "done"
  /\ LET j == InitializeJournal(journal, TRUE) IN
     /\ j.valid
     /\ Appended(j) < MaxAppends
     /\ journal' = [j EXCEPT !.current = Append(@, ADDED)]
  /\ UNCHANGED <<repoVars, pc, cfg, wf, wpc, forge, pipeVars>>

\* the forge runs with one command and one fix attempt, or with the
\* pipeline disabled
JournalConfigs(j) ==
  {c \in Configs :
     /\ Canonical(c, "forge", j)
     /\ c.pipelineEnable /\ j.current # <<>> =>
          c.commands = {"typecheck"} /\ c.pipelineMaxAiFixAttempts = 1}

JournalInit ==
  /\ wf = "forge"
  /\ journal \in JournalStates
  /\ cfg \in JournalConfigs(journal)
  /\ ignored = {LOG}
  /\ repo \in StartRepos
  /\ before = [repo |-> repo, journal |-> journal]
  /\ tmp = NoSide /\ snapshot = NoSnapshot /\ mutations = 0
  /\ pc = "idle" /\ wpc = "idle"
  /\ forge = InitForge
  /\ IdlePipeline

JournalNext ==
  \/ AddEntry
  \/ ForgeStart \/ ForgeAfterPipeline \/ ForgeCommit \/ ForgePush \/ ForgeClear
  \/ RunPipelineDisabled \/ PreparePipeline \/ StepBegin \/ ExecuteStep
  \/ RequestAiFix \/ StageChanges \/ StepFailed \/ DecideAfterFailure
  \/ RetryStep \/ Finally

SpecJournal == JournalInit /\ [][JournalNext]_vars

(***************************************************************************)
(* The snapshot manager on its own: capture, arbitrary mutation, restore.  *)
(***************************************************************************)
SnapCapture ==
  /\ pc = "snap_idle"
  /\ snapshot' = CaptureSnapshot(repo, ignored)
  /\ tmp' = CaptureSide(repo, ignored)
  /\ before' = [repo |-> repo, journal |-> journal]
  /\ pc' = "snap_captured"
  /\ UNCHANGED <<ignored, repo, mutations, pipeVars, flowVars>>

SnapMutate ==
  /\ pc = "snap_captured"
  /\ mutations < MaxMutations
  /\ repo' \in Mutated(repo)
  /\ mutations' = mutations + 1
  /\ UNCHANGED <<ignored, tmp, snapshot, before, pc, pipeVars, flowVars>>

SnapRestore ==
  /\ pc \in {"snap_captured", "snap_restored"}
  /\ LET blocked == RestoreBlockedAt(repo, snapshot, tmp)
     IN  \/ /\ blocked = 0
            /\ repo' = RestoreRepoSnapshot(repo, snapshot, tmp)
            /\ tmp' = NoSide
            /\ pc' = IF pc = "snap_captured" THEN "snap_restored" ELSE "snap_restored_twice"
         \/ /\ blocked # 0
            /\ repo' = RestoreUpTo(repo, snapshot, tmp, blocked - 1)
            /\ tmp' = tmp
            /\ pc' = IF pc = "snap_captured" THEN "snap_failed" ELSE "snap_failed_twice"
  /\ UNCHANGED <<ignored, snapshot, before, mutations, pipeVars, flowVars>>

SnapInit ==
  /\ ignored \in {{LOG}, {LOG, ART}}
  /\ repo \in RepoStates
  /\ tmp = NoSide
  /\ snapshot = NoSnapshot
  /\ before = [repo |-> repo, journal |-> DEFAULT_JOURNAL]
  /\ mutations = 0
  /\ pc = "snap_idle"
  /\ cfg \in {c \in Configs : Canonical(c, "forge", DEFAULT_JOURNAL)}
  /\ wf = "snapshot" /\ wpc = "idle"
  /\ journal = DEFAULT_JOURNAL /\ forge = InitForge
  /\ IdlePipeline

SnapNext == SnapCapture \/ SnapMutate \/ SnapRestore

SpecSnapshot == SnapInit /\ [][SnapNext]_vars

(***************************************************************************)
(* Properties of runPipeline and of the two workflows.                     *)
(***************************************************************************)
Finished == pc \in {"returned", "rejected"}

\* failures of what surrounds the steps: hooks, the ignore file, the git
\* plumbing of capture and restore
EnvFailure ==
  /\ pending.status = "thrown"
  /\ pending.by \in {"readIgnorePatterns", "captureRepoSnapshot", "restoreRepoSnapshot",
                     "onStepStart", "onStepComplete"}

StepIndex(s) == CHOOSE i \in 1..Len(STEP_SEQUENCE) : STEP_SEQUENCE[i] = s
Later(s) == {t \in Steps : StepIndex(t) > StepIndex(s)}

\* C1: in a dry run, once a snapshot has been captured, restoreRepoSnapshot
\* has been invoked with exactly that snapshot by the time runPipeline
\* returns or rejects, on every exit path
C1_RestoreInvoked ==
  (Finished /\ mode = "dry-run" /\ snapshot.taken) => restoredWith = <<snapshot>>

\* C1 witness: an exception raised inside the step loop, the snapshot restored
C1_Witness ==
  /\ pc = "rejected" /\ mode = "dry-run" /\ snapshot.taken
  /\ pending.status = "thrown" /\ pending.by = "onStepComplete"
  /\ restoredWith = <<snapshot>>

\* C2: a step is reported as a success only if some execution of its command
\* exited zero or the decision resolver gave a decision for it
C2_SuccessNeedsZeroExit ==
  \A s \in Steps :
    stats.reported[s] = "success" => (stats.execs[s] > stats.fails[s] \/ stats.asks[s] > 0)

\* C3: after performDryRun has returned completed or aborted, git status
\* --porcelain and the journal are what they were before the call
C3_DryRunLeavesNoTrace ==
  (wf = "dryRun" /\ wpc = "done" /\ forge.result.status \in {"completed", "aborted"}) =>
     /\ StatusPorcelain(repo, ignored) = StatusPorcelain(before.repo, ignored)
     /\ journal = before.journal

\* C5: when no execution of any step command failed, and nothing around the
\* steps failed, runPipeline returns completed, every configured command ran
\* exactly once, no fix was requested and the resolver was never called
C5_AllPass ==
  (Finished /\ cfg.pipelineEnable /\ ~EnvFailure /\ \A s \in Steps : stats.fails[s] = 0) =>
     /\ pc = "returned" /\ outcome.status = "completed"
     /\ \A s \in Steps : stats.execs[s] = IF HasCommand(s) THEN 1 ELSE 0
     /\ \A s \in Steps : stats.fixes[s] = 0 /\ stats.asks[s] = 0

\* C6: in execute mode, a step that failed k >= 1 times, had a fix applied
\* after each failure and then succeeded, ran k+1 times with k fix requests and
\* a successful result of attempt k, and the pipeline returns completed when
\* no other step failed
C6_FixedAfterK ==
  \A s \in Steps :
    (/\ Finished /\ mode = "execute" /\ ~EnvFailure
     /\ stats.reported[s] = "success" /\ stats.fails[s] >= 1
     /\ stats.applied[s] = stats.fails[s] /\ stats.asks[s] = 0
     /\ \A t \in Steps \ {s} : stats.fails[t] = 0)
    => /\ stats.execs[s] = stats.fails[s] + 1
       /\ stats.fixes[s] = stats.fails[s]
       /\ stats.okAttempt[s] = stats.fails[s]
       /\ pc = "returned" /\ outcome.status = "completed"

\* C7: with abortOnFailure set, once the retry loop of a step has ended
\* without success the resolver is never called, no later step runs, and
\* unless a hook or the restore fails runPipeline returns aborted naming the step
C7_AbortOnFailure ==
  \A s \in Steps :
    (cfg.pipelineAbortOnFailure /\ stats.exhausted[s]) =>
       /\ \A t \in Steps : stats.asks[t] = 0
       /\ \A t \in Later(s) : stats.execs[t] = 0
       /\ (Finished /\ ~EnvFailure) => (pc = "returned" /\ outcome = Aborted(s))

\* C7 witness: format used up its fix budget, tests is configured and never ran
C7_Witness ==
  /\ pc = "returned" /\ cfg.pipelineAbortOnFailure
  /\ stats.exhausted["format"] /\ stats.fixes["format"] >= 1
  /\ HasCommand("tests") /\ stats.execs["tests"] = 0
  /\ outcome = Aborted("format")

\* C8: without abortOnFailure, when the resolver answers commitAnyway for a
\* step whose retry loop ended without success, no later step runs and, unless
\* the restore fails, runPipeline returns commit-anyway with suppressAutoPush
\* set and an annotation naming the step
C8_CommitAnyway ==
  \A s \in Steps :
    (~cfg.pipelineAbortOnFailure /\ stats.exhausted[s] /\ stats.decision[s] = "commitAnyway") =>
       /\ \A t \in Later(s) : stats.execs[t] = 0
       /\ (Finished /\ ~EnvFailure) =>
            /\ pc = "returned"
            /\ outcome.status = "commit-anyway"
            /\ outcome.suppressAutoPush
            /\ outcome.commitAnnotation = Annotation(s)

\* C8 witness: commit-anyway returned for format while tests is configured
C8_Witness ==
  /\ pc = "returned" /\ stats.decision["format"] = "commitAnyway"
  /\ HasCommand("tests") /\ stats.execs["tests"] = 0
  /\ outcome.status = "commit-anyway" /\ outcome.commitAnnotation = Annotation("format")

\* C9: when runPipeline has returned aborted, forgeCommitFromJournal never
\* commits, pushes or clears the journal, and its result is pipeline-aborted
\* with the failed step
C9_AbortedNeverCommits ==
  (wf = "forge" /\ pc = "returned" /\ outcome.status = "aborted") =>
     /\ forge.commitCalls = 0 /\ forge.commits = <<>>
     /\ forge.pushes = 0 /\ forge.clears = 0
     /\ journal = before.journal
     /\ wpc \in {"pipeline", "done"}
     /\ wpc = "done" =>
          forge.result = Result("pipeline-aborted", outcome.failedStep, FALSE, NoAnnotation)

\* C9 witness: the forge has returned pipeline-aborted with push-after enabled
C9_Witness ==
  /\ wf = "forge" /\ wpc = "done" /\ pc = "returned" /\ cfg.commitPushAfter
  /\ outcome.status = "aborted" /\ outcome.failedStep = "tests"
  /\ forge.result.status = "pipeline-aborted" /\ forge.result.failedStep = "tests"

\* C10: when the outcome has suppressAutoPush set, forgeCommitFromJournal
\* never pushes; it attempts the commit exactly once and, unless the commit or
\* the journal write fails, the commit made carries the pipeline annotation
C10_SuppressedPush ==
  (wf = "forge" /\ pc = "returned" /\ outcome.suppressAutoPush) =>
     /\ forge.pushes = 0
     /\ wpc = "done" => forge.commitCalls = 1
     /\ wpc \in {"push", "clear"} \/ (wpc = "done" /\ forge.result.status # "error") =>
          /\ Len(forge.commits) = 1
          /\ forge.commits[1].annotation = outcome.commitAnnotation
          /\ forge.commits[1].annotation # NoAnnotation

\* C10 witness: a commit-warning result with push-after enabled and no push
C10_Witness ==
  /\ wf = "forge" /\ wpc = "done" /\ pc = "returned" /\ cfg.commitPushAfter
  /\ outcome.suppressAutoPush /\ forge.pushes = 0
  /\ forge.result.status = "commit-warning" /\ Len(forge.commits) = 1

(***************************************************************************)
(* Properties of the snapshot round trip (SpecSnapshot).                   *)
(***************************************************************************)
\* paths the restore neither cleans nor captures: those under .commit-smith
\* (excluded from git clean) and those matched by .gitignore
Outside(p) == p \notin ignored /\ Parent(p) # CS

C11_RetryOnce ==
  \A s \in Steps :
    stats.retries[s] >= 1 =>
      /\ stats.retries[s] = 1
      /\ stats.execs[s] = stats.applied[s] + 2
      /\ stats.fixes[s] <= stats.applied[s] + 1
      /\ stats.reported[s] = "success" =>
           \/ pc = "stage" /\ CurStep = s /\ ~IsDryRun
           \/ stepIdx > StepIndex(s)
      /\ stats.reported[s] = "failure" =>
           /\ stepIdx = StepIndex(s)
           /\ pc = "finally" => pending = Aborted(s)
           /\ pc = "returned" => outcome = Aborted(s)
           /\ pc = "rejected" => pending = Thrown("restoreRepoSnapshot")

\* C12: when the rerun bought by a retry decision fails as well, the decision
\* resolver is consulted again for the same step instead of the pipeline ending
C12_RetryFailureAsksAgain ==
  \A s \in Steps :
    (stats.retries[s] >= 1 /\ stats.reported[s] = "failure") =>
      \/ pc = "decide" /\ CurStep = s
      \/ stats.asks[s] >= 2

\* C13: when no onDecisionRequired hook is given, or the hook throws, the
\* failed step ends exactly as an abort answer would end it: no rerun, no
\* later step, runPipeline returns aborted with that step, and the hook's
\* exception does not leave runPipeline
C13_NoAnswerIsAbort ==
  \A s \in Steps :
    stats.answer[s] \in {"absent", "throws"} =>
      /\ stats.decision[s] = "abort"
      /\ stats.retries[s] = 0
      /\ stepIdx = StepIndex(s)
      /\ \A t \in Later(s) : stats.execs[t] = 0
      /\ pc \in {"finally", "returned", "rejected"}
      /\ pc = "finally" => pending = Aborted(s)
      /\ pc = "returned" => outcome = Aborted(s)
      /\ pc = "rejected" => pending = Thrown("restoreRepoSnapshot")

C13_Witness ==
  \E s \in Steps :
    /\ stats.answer[s] = "absent"
    /\ Later(s) \cap cfg.commands # {}
    /\ pc = "returned" /\ outcome = Aborted(s)

\* C14: a fix whose diff touches at least one path matching the ignore rules,
\* alone or next to permitted paths, is rejected as a whole: git apply is not
\* run, no file is modified or staged, the dry-run capture callback is not
\* called, and the fix attempt counts as failed
C14_IgnoredPatchRejected ==
  pc = "fix" =>
    \A resp \in FixResponses, captureOk \in BOOLEAN :
      (\E file \in TouchedFiles(resp) : IsIgnored(file, IgnoreRules)) =>
        LET fix == AttemptAiFix(repo, resp, mode, captureOk) IN
        /\ ~fix.applied
        /\ ~fix.checked /\ ~fix.patched
        /\ ~fix.captured
        /\ fix.staged = {}
        /\ fix.repo = repo

\* C15: a diff in which any path on any ---/+++ header line holds a '..' or
\* is absolute is rejected by the validation before anything is written: it
\* never reaches git apply and is never handed to the dry-run capture callback
C15_TraversalRejected ==
  pc = "fix" =>
    \A resp \in FixResponses, captureOk \in BOOLEAN :
      (\E file \in ExtractPatchedFiles(resp) : ContainsTraversal(file) \/ IsAbsolute(file)) =>
        LET fix == AttemptAiFix(repo, resp, mode, captureOk) IN
        /\ ~ValidateUnifiedDiff(resp)
        /\ ~fix.checked /\ ~fix.patched
        /\ ~fix.captured
        /\ fix.repo = repo

\* C16: in execute mode a fix changes the working copy only when git apply
\* --check accepts the diff; the diff is then applied and exactly the files
\* extracted from it are staged; when the check fails, tree and index stay
\* as they were and the fix attempt counts as failed
C16_CheckThenApply ==
  [][(pc = "fix" /\ mode = "execute") =>
       \/ repo' = repo /\ pc' = "failed"
       \/ \E resp \in FixResponses :
            /\ TouchedFiles(resp) \subseteq Paths
            /\ PatchApplies(repo, Changes(resp), FALSE)
            /\ LET patched == GitApply(repo, Changes(resp), FALSE)
                   files   == ExtractPatchedFiles(resp)
               IN  \/ repo' = StageModified(patched, files) /\ pc' = "exec"
                   \/ RepoAddFails(patched, files) /\ repo' = patched /\ pc' = "failed"]_vars

C16_Witness ==
  /\ mode = "execute" /\ pc = "exec" /\ attempt = 1
  /\ stats.applied[CurStep] = 1
  /\ repo.index[DG] = "x" /\ before.repo.index[DG] = Absent

\* C17: restoreRepoSnapshot is idempotent: called a second time with the same
\* snapshot right after a first successful call it succeeds again and leaves
\* the working copy as the first call left it
C17_RestoreIdempotent ==
  [][(pc = "snap_restored" /\ pc' # pc) =>
       (pc' = "snap_restored_twice" /\ repo' = repo)]_vars

\* C18: when a git command or a file operation of captureRepoSnapshot or
\* restoreRepoSnapshot fails in a dry run, runPipeline rejects, and
\* performDryRun reports the status error, never completed or aborted, and
\* writes no summary
C18_PlumbingFailureIsError ==
  (pending.status = "thrown"
     /\ pending.by \in {"captureRepoSnapshot", "restoreRepoSnapshot"}) =>
    /\ mode = "dry-run" /\ wf = "dryRun"
    /\ pc = "rejected"
    /\ outcome = NoOutcome
    /\ wpc = "done" => forge.result = Plain("error") /\ forge.summary = NoSummary

C18_Witness ==
  /\ wf = "dryRun" /\ wpc = "done"
  /\ pending = Thrown("restoreRepoSnapshot")
  /\ \E s \in Steps : stats.execs[s] >= 1
  /\ forge.result = Plain("error")

\* C19: runPipeline rejects only for a failure of the snapshot capture or
\* restore or of the preparation before the loop (exceptions thrown by the
\* caller's own hooks set aside); every other failure met while the steps are
\* processed ends in a returned outcome
C19_OnlyInfrastructureRejects ==
  pc = "rejected" =>
    pending.by \in {"readIgnorePatterns", "captureRepoSnapshot", "restoreRepoSnapshot",
                    "onStepStart", "onStepComplete"}

\* C20: after a dry run in which the command of a step failed and a fix diff
\* was proposed for it, the artefact directory holds a diff file and
\* summary.json records the status aborted with that step as the failed one
C20_DryRunFailureSummary ==
  (wf = "dryRun" /\ wpc = "done" /\ forge.result.status # "error") =>
    \A s \in Steps :
      (stats.fails[s] >= 1 /\ stats.applied[s] >= 1) =>
        /\ repo.wt[ART] = "x"
        /\ forge.summary = [status |-> "aborted", failedStep |-> s]

\* C21: the current entries of the journal change only when clearCurrent
\* empties them after a commit has succeeded in the same call of
\* forgeCommitFromJournal: an aborted pipeline or a failing commit leaves
\* them as they were, and performDryRun never writes the journal
C21_ClearedOnlyAfterCommit ==
  [][/\ journal'.current # journal.current =>
          /\ wf = "forge" /\ wpc = "clear"
          /\ forge.commitCalls = 1 /\ Len(forge.commits) = 1
          /\ journal'.current = <<>>
     /\ forge'.result.status = "pipeline-aborted" => journal'.current = before.journal.current
     /\ (forge'.commitCalls = 1 /\ forge'.commits = <<>>) =>
          journal'.current = before.journal.current
     /\ wf = "dryRun" => journal' = before.journal
     /\ forge'.result.status \in {"commit-success", "commit-warning"} =>
          journal'.current = <<>>]_vars

C21_Witness ==
  /\ wf = "forge" /\ wpc = "done"
  /\ before.journal.current # <<>> /\ journal.current = <<>>
  /\ Len(forge.commits) = 1 /\ forge.clears = 1

\* C22: when generateCommitMessage fails, forgeCommitFromJournal goes on: the
\* message is the '[offline mode]' one listing at most three of the staged
\* files, the pipeline annotation is appended when the outcome was
\* commit-anyway, exactly one commit is made with it, and the result is
\* commit-success or commit-warning (error only when the commit itself or
\* clearCurrent fails afterwards)
C22_OfflineFallback ==
  (wf = "forge" /\ forge.message.source = "offline") =>
    /\ forge.message.annotation =
         (IF outcome.status = "commit-anyway" THEN Annotation(outcome.failedStep)
                                              ELSE NoAnnotation)
    /\ Len(forge.message.files) <= 3
    /\ forge.commitCalls <= 1
    /\ wpc \in {"push", "clear"} => forge.commits = <<forge.message>>
    /\ wpc = "done" =>
         \/ /\ forge.commits = <<forge.message>> /\ forge.commitCalls = 1 /\ forge.clears = 1
            /\ forge.result.status =
                 (IF outcome.status = "commit-anyway" THEN "commit-warning" ELSE "commit-success")
         \/ /\ forge.result = Plain("error")
            /\ forge.commits = <<>> \/ forge.clears = 0
    /\ wpc = "commit" =>
         \A stagedFiles \in OfflineInputs :
           LET listed == BuildOfflineCommitMessage(stagedFiles).files IN
           /\ Len(listed) <= 3 /\ Len(listed) <= Len(stagedFiles)
           /\ Len(stagedFiles) <= 3 => Len(listed) = Len(stagedFiles)
           /\ \A i \in 1..Len(listed) : listed[i] = StripDotSlash(stagedFiles[i])

C22_Witness ==
  /\ wf = "forge" /\ wpc = "done"
  /\ forge.message.source = "offline" /\ Len(forge.message.files) = 2
  /\ outcome.status = "commit-anyway"
  /\ forge.result.status = "commit-warning"
  /\ forge.commits = <<forge.message>>

\* C23: with a journal that holds no pending entry, forgeCommitFromJournal
\* and performDryRun return the status empty and nothing else happens: the
\* pipeline is not run, no step command is executed, no snapshot is captured,
\* nothing is committed or pushed and no artefact is created
C23_EmptyJournal ==
  (wf \in {"forge", "dryRun"} /\ before.journal.valid /\ before.journal.current = <<>>) =>
    /\ wpc \in {"idle", "done"}
    /\ pc = "idle" /\ IdlePipeline
    /\ snapshot = NoSnapshot /\ tmp = NoSide
    /\ repo = before.repo
    /\ forge.commitCalls = 0 /\ forge.commits = <<>> /\ forge.pushes = 0
    /\ forge.summary = NoSummary /\ forge.clears = 0
    /\ wpc = "done" => forge.result = Plain("empty")

C23_Witness ==
  /\ wf = "dryRun" /\ wpc = "done"
  /\ before.journal.exists /\ before.journal.valid /\ before.journal.current = <<>>
  /\ forge.result = Plain("empty")
  /\ CS \notin repo.dirs

\* C24: in a dry run, once a proposed patch for a failed step has been
\* captured, the command of that step is executed again before the step is
\* finished: a finished step has one execution more than captured patches
C24_DryRunRerunsAfterCapture ==
  \A s \in Steps :
    (IsDryRun /\ stats.applied[s] >= 1
       /\ (stepIdx > StepIndex(s) \/ pc \in {"finally", "returned", "rejected"})) =>
      stats.execs[s] >= stats.applied[s] + 1

\* the fixed order of the steps, written out
C25_Before == {<<"format", "typecheck">>, <<"format", "tests">>, <<"typecheck", "tests">>}

C26_RestoreOrder ==
  [][(pc = "snap_captured" /\ pc' # pc) =>
       LET s1 == ResetHard(repo)
           s2 == GitClean(s1, ignored)
           s3 == IF snapshot.stagedPatch # {}
                   THEN GitApply(s2, snapshot.stagedPatch, TRUE) ELSE s2
           s4 == IF snapshot.unstagedPatch # {}
                   THEN GitApply(s3, snapshot.unstagedPatch, FALSE) ELSE s3
           s5 == CopyBack(s4, snapshot, tmp)
           s6 == MkDirs(s5, snapshot)
       IN  /\ \/ pc' = "snap_restored" /\ repo' = s6
              \/ pc' = "snap_failed" /\ repo' \in {s2, s3, s4}
           /\ ART \notin snapshot.untrackedFiles =>
                /\ repo'.wt[ART] = repo.wt[ART]
                /\ CS \in repo.dirs => CS \in repo'.dirs]_vars

C26_Witness ==
  /\ pc = "snap_restored" /\ mutations >= 1
  /\ before.repo.wt[ART] = Absent /\ repo.wt[ART] = "x"
  /\ snapshot.stagedPatch # {} /\ snapshot.unstagedPatch # {}
  /\ snapshot.untrackedFiles # {} /\ snapshot.emptyDirs # {}

\* C27: a step command that cannot be spawned or exits non-zero does not make
\* executeStep throw: either way the StepResult has success false and the
\* error text in stderr, and the step goes down the same failure path
C27_SpawnFailureCaptured ==
  pc \in {"exec", "retry"} =>
    \A o \in ExecOutcomes \ {"exit0"} :
      LET result == ExecuteStepResult(o) IN
      /\ ~result.success
      /\ result.stderr # ""
      /\ o \in SpawnFailures => result.stderr = ExecError(o).message

\* a diff attemptAiFix can use: it passes the validation, none of the files
\* extracted from it is ignored, and in execute mode git apply --check accepts it
C28_Usable(resp) ==
  /\ ValidateUnifiedDiff(resp)
  /\ \A file \in ExtractPatchedFiles(resp) : ~IsIgnored(file, IgnoreRules)
  /\ mode = "execute" => GitApplyCheck(repo, resp)

C29_DryRunNeverApplies ==
  [][(mode = "dry-run" /\ wpc = "pipeline" /\ pc # "finally") =>
       /\ pc' # "stage"
       /\ repo'.index = repo.index
       /\ pc = "fix" =>
            /\ \A p \in Paths \ {ART} : repo'.wt[p] = repo.wt[p]
            /\ \A resp \in FixResponses, captureOk \in BOOLEAN :
                 LET fix       == AttemptAiFix(repo, resp, mode, captureOk)
                     files     == ExtractPatchedFiles(resp)
                     permitted == /\ ValidateUnifiedDiff(resp)
                                  /\ files # {}
                                  /\ \A file \in files : ~IsIgnored(file, IgnoreRules)
                 IN  /\ ~fix.checked /\ ~fix.patched /\ fix.staged = {}
                     /\ fix.captured <=> permitted]_vars

C29_Witness ==
  /\ mode = "dry-run" /\ pc = "returned"
  /\ \E s \in Steps : stats.applied[s] >= 1
  /\ \E s \in Steps : stats.retries[s] = 1 /\ stats.reported[s] = "success"
  /\ repo.wt[ART] = "x"

\* C30: in execute mode a successful execution inside the retry loop is
\* followed by staging exactly when the step is format or the attempt is
\* above 0, and staging puts into the index the files git status reports as
\* changed that no ignore pattern matches; a typecheck or tests step that
\* succeeds at attempt 0 stages nothing
C30_StagesChangedFiles ==
  [][/\ (mode = "execute" /\ pc = "exec" /\ pc' \in {"stage", "step"}) =>
          /\ pc' = "stage" <=> (CurStep = "format" \/ attempt > 0)
          /\ repo'.index = repo.index
     /\ (mode = "execute" /\ pc = "stage") =>
          LET changed == {e[1] : e \in StatusPorcelain(repo, ignored)}
              allowed == {file \in changed : ~IsIgnored(file, IgnoreRules)}
          IN  /\ pc' = "step"
              /\ repo' = IF allowed = {} THEN repo ELSE RepoAdd(repo, allowed)]_vars

\* C31: a step whose resolved command is empty or blank is skipped: its
\* command is never executed, no fix is requested and no decision asked for
\* it, no event is raised for it, the skip reason is logged, it is not the
\* failed step of the outcome, and the loop moves on to the next step; in a
\* dry run the configured format command itself is never executed
C31_EmptyCommandSkipped ==
  [][/\ \A s \in Steps :
          (cfg.pipelineEnable /\ wpc' = "pipeline" /\ ~HasCommand(s)') =>
            /\ stats'.execs[s] = 0 /\ stats'.fails[s] = 0 /\ stats'.ran[s] = ""
            /\ stats'.fixes[s] = 0 /\ stats'.asks[s] = 0
            /\ stats'.starts[s] = 0 /\ stats'.completes[s] = 0
            /\ stats'.reported[s] = "none" /\ ~stats'.exhausted[s]
            /\ pending'.status \in {"aborted", "commit-anyway"} => pending'.failedStep # s
            /\ stepIdx' > StepIndex(s) => stats'.skipped[s]
     /\ (wpc = "pipeline" /\ pc = "step" /\ stepIdx <= Len(STEP_SEQUENCE) /\ ~HasCommand(CurStep)) =>
            /\ pc' = "step" /\ stepIdx' = stepIdx + 1
            /\ stats'.skipped[CurStep]
            /\ pending' = pending /\ repo' = repo
     /\ \A s \in Steps :
          /\ stats'.execs[s] > stats.execs[s] => stats'.ran[s] \in {ConfiguredCommand, CheckVariant}
          /\ (mode' = "dry-run" /\ s = "format") => stats'.ran[s] # ConfiguredCommand]_vars

C31_Witness ==
  /\ mode = "dry-run" /\ pc = "returned" /\ outcome.status = "completed"
  /\ "format" \in cfg.commands /\ ~cfg.formatCheckVariant
  /\ stats.skipped["format"] /\ stats.execs["format"] = 0
  /\ stats.skipped["typecheck"]
  /\ stats.execs["tests"] = 1 /\ stats.ran["tests"] = ConfiguredCommand

\* C32: with hooks given, every execution of a step command has exactly one
\* onStepStart event before it and exactly one onStepComplete event after
\* it, and onStepComplete is only ever passed the result of an execution:
\* no execution runs without its start event, no completion carries a
\* result that no execution returned, and once a step is over it has as many
\* start events and as many completion events as executions
C32_OneStartOneCompletePerExecution ==
  \A s \in Steps :
    HooksGiven =>
      /\ stats.unexecuted[s] = 0
      /\ stats.execs[s] <= stats.starts[s]
      /\ stats.completes[s] <= stats.execs[s]
      /\ (stepIdx > StepIndex(s) \/ (Finished /\ pending.status # "thrown")) =>
           /\ stats.starts[s] = stats.execs[s]
           /\ stats.completes[s] = stats.execs[s]

\* C33: the engine never stages everything at once: stageRelevantChanges
\* calls stageModified at most once, with the non-empty list of changed files
\* the ignore rules leave, and not at all when that list is empty; a fix
\* attempt that applies a diff stages the non-empty list of files extracted
\* from it; a dry run stages nothing
C33_NeverStagesAll ==
  /\ pc = "stage" =>
       LET staging == StageRelevantChanges(repo)
           allowed == {file \in ListChangedFiles(repo) : ~IsIgnored(file, IgnoreRules)}
       IN  /\ ~IsDryRun
           /\ staging.calls = IF allowed = {} THEN <<>> ELSE <<allowed>>
           /\ \A i \in 1..Len(staging.calls) : ~UsesAddDot(staging.calls[i])
           /\ allowed = {} => staging.repo = repo /\ ~staging.threw
           /\ ~staging.threw => \A p \in Tracked :
                staging.repo.index[p] # repo.index[p] => (p \in allowed \/ Parent(p) \in allowed)
  /\ pc = "fix" =>
       \A resp \in FixResponses, captureOk \in BOOLEAN :
         LET fix == AttemptAiFix(repo, resp, mode, captureOk) IN
         /\ fix.patched => ~UsesAddDot(fix.staged) /\ fix.staged = ExtractPatchedFiles(resp)
         /\ ~fix.patched => fix.staged = {} /\ fix.repo.index = repo.index

C33_Witness ==
  /\ pc = "stage" /\ mode = "execute"
  /\ ListChangedFiles(repo) # {}
  /\ \A file \in ListChangedFiles(repo) : IsIgnored(file, IgnoreRules)
  /\ UnstagedDiff(repo) = {}

\* C34: every outcome runPipeline returns (and every outcome its try block
\* is about to return) has one of the four statuses, names a failed step
\* exactly when the status is aborted or commit-anyway, carries a commit
\* annotation exactly when the status is commit-anyway, and has
\* suppressAutoPush set exactly when the status is commit-anyway
C34_OutcomeShape ==
  \A o \in {outcome, pending} :
    o.status \notin {"none", "thrown"} =>
      /\ o.status \in {"skipped", "completed", "aborted", "commit-anyway"}
      /\ o.failedStep # NoStep <=> o.status \in {"aborted", "commit-anyway"}
      /\ o.failedStep # NoStep => o.failedStep \in Steps
      /\ o.commitAnnotation # NoAnnotation <=> o.status = "commit-anyway"
      /\ o.commitAnnotation # NoAnnotation => o.commitAnnotation = Annotation(o.failedStep)
      /\ o.suppressAutoPush <=> o.status = "commit-anyway"

C34_Witness ==
  /\ pc = "returned" /\ outcome = Aborted("typecheck")
  /\ stats.decision["typecheck"] = "abort" /\ stats.asks["typecheck"] = 1

\* a measure of what runPipeline still has to do: the steps left, and within
\* a step the fix attempts left and the position between execution, fix,
\* failure handling, decision, retry and staging
C35_Rank ==
  LET N      == cfg.pipelineMaxAiFixAttempts
      perStep == 2 * N + 8
      left   == (Len(STEP_SEQUENCE) + 1 - stepIdx) * perStep
  IN  CASE pc = "start"   -> (Len(STEP_SEQUENCE) + 2) * perStep
        [] pc = "step"    -> left + perStep - 1
        [] pc = "exec"    -> left + 2 * (N - attempt) + 6
        [] pc = "fix"     -> left + 2 * (N - attempt) + 5
        [] pc = "failed"  -> left + 3
        [] pc = "decide"  -> left + 2
        [] pc = "retry"   -> left + 1
        [] pc = "stage"   -> left
        [] pc = "finally" -> 1
        [] OTHER          -> 0

C36_NoSnapshotInExecuteMode ==
  [][/\ mode' = "execute" =>
          snapshot' = NoSnapshot /\ tmp' = NoSide /\ restoredWith' = <<>>
     /\ snapshot' # snapshot =>
          /\ mode = "dry-run" /\ pc = "start" /\ snapshot = NoSnapshot
          /\ snapshot' = CaptureSnapshot(repo, ignored)
     /\ restoredWith' # restoredWith =>
          /\ mode = "dry-run" /\ pc = "finally" /\ snapshot.taken
          /\ restoredWith' = Append(restoredWith, snapshot)
     /\ (pc = "finally" /\ repo' # repo) =>
          /\ mode = "dry-run" /\ snapshot.taken
          /\ restoredWith' = <<snapshot>>
     /\ (pc = "finally" /\ mode = "execute") => UNCHANGED <<repo, tmp, snapshot>>]_vars

C36_Witness ==
  /\ mode = "execute" /\ pc = "returned" /\ wf = "forge"
  /\ \E s \in Steps : stats.execs[s] >= 1
  /\ snapshot = NoSnapshot /\ restoredWith = <<>>
  /\ ResetHard(repo) # repo /\ GitClean(repo, ignored) # repo

\* C37: every entry forgeCommitFromJournal removes from the current list of
\* the journal is one it read at the start and handed to the commit message
\* generation, also when the command line tool appends entries while the
\* pipeline runs and the commit is made
C37_ClearsOnlyWhatItRead ==
  [][(wf = "forge" /\ wpc = "clear" /\ wpc' = "done") =>
       \A i \in 1..Len(journal.current) :
         (\A k \in 1..Len(journal'.current) : journal'.current[k] # journal.current[i]) =>
           \E k \in 1..Len(forge.read) : forge.read[k] = journal.current[i]]_vars

\* C38: with the pipeline disabled runPipeline returns skipped with
\* suppressAutoPush false and does nothing else: no command, fix request,
\* decision, hook event, staging, snapshot or restore, and index and working
\* tree stay as they were; forgeCommitFromJournal then makes its commit,
\* pushes exactly when commit.pushAfter is set, and clears the journal
C38_DisabledPipelineSkips ==
  (~cfg.pipelineEnable /\ pc # "idle") =>
    /\ pc \in {"start", "returned"}
    /\ pc = "returned" =>
         /\ outcome.status = "skipped" /\ ~outcome.suppressAutoPush
         /\ outcome.failedStep = NoStep /\ outcome.commitAnnotation = NoAnnotation
    /\ stats = InitStats /\ pending = NoOutcome
    /\ snapshot = NoSnapshot /\ tmp = NoSide /\ restoredWith = <<>>
    /\ repo.index = before.repo.index
    /\ \A p \in Paths \ {ART} : repo.wt[p] = before.repo.wt[p]
    /\ wf = "forge" =>
         /\ repo = before.repo
         /\ wpc \in {"push", "clear"} => Len(forge.commits) = 1
         /\ wpc = "clear" => forge.pushes = (IF cfg.commitPushAfter THEN 1 ELSE 0)
         /\ wpc = "done" =>
              \/ /\ forge.result.status = "commit-success"
                 /\ Len(forge.commits) = 1 /\ forge.commits[1].annotation = NoAnnotation
                 /\ forge.pushes = (IF cfg.commitPushAfter THEN 1 ELSE 0)
                 /\ forge.clears = 1 /\ journal.current = <<>>
              \/ /\ forge.result = Plain("error")
                 /\ forge.commits = <<>> \/ forge.clears = 0

C38_Witness ==
  /\ wf = "forge" /\ wpc = "done" /\ ~cfg.pipelineEnable /\ cfg.commitPushAfter
  /\ outcome.status = "skipped"
  /\ forge.result.status = "commit-success" /\ ~forge.result.pushFailed
  /\ forge.pushes = 1 /\ forge.clears = 1 /\ journal.current = <<>>

\* C39: performDryRun reports aborted only for an aborted pipeline outcome,
\* and for every pipeline outcome it reports (the artefacts written) aborted
\* with the failed step when the outcome is aborted and completed when it is
\* completed, commit-anyway or skipped; summary.json, whenever it is
\* written, holds the status and the failed step of the pipeline outcome
C39_DryRunStatus ==
  (wf = "dryRun" /\ wpc = "done") =>
    /\ forge.result.status \in {"empty", "aborted", "completed", "error"}
    /\ forge.result.status = "aborted" => (pc = "returned" /\ outcome.status = "aborted")
    /\ forge.result.status \in {"aborted", "completed"} =>
         /\ pc = "returned"
         /\ forge.result.status = "aborted" <=> outcome.status = "aborted"
         /\ forge.result.status = "completed" <=>
              outcome.status \in {"completed", "commit-anyway", "skipped"}
         /\ forge.result.failedStep =
              (IF outcome.status = "aborted" THEN outcome.failedStep ELSE NoStep)
         /\ forge.summary = [status |-> outcome.status, failedStep |-> outcome.failedStep]
    /\ forge.result.status \in {"empty", "error"} => forge.summary = NoSummary

C39_Witness ==
  /\ wf = "dryRun" /\ wpc = "done"
  /\ outcome.status = "commit-anyway" /\ outcome.failedStep = "tests"
  /\ forge.result = Plain("completed")
  /\ forge.summary = [status |-> "commit-anyway", failedStep |-> "tests"]

\* C40: a push that fails after the commit does not make
\* forgeCommitFromJournal return error: the workflow goes on to clear the
\* journal and returns commit-success or commit-warning with pushFailed set
\* (error only when clearCurrent itself fails afterwards); pushFailed is set
\* only when a push was attempted, after a commit, and failed
C40_PushFailureIsNotAnError ==
  wf = "forge" =>
    /\ forge.pushes <= 1 /\ forge.pushErrors <= forge.pushes
    /\ forge.pushes = 1 =>
         /\ cfg.commitPushAfter /\ ~outcome.suppressAutoPush
         /\ Len(forge.commits) = 1 /\ wpc \in {"clear", "done"}
    /\ forge.pushFailed <=> forge.pushErrors = 1
    /\ forge.result.pushFailed => forge.pushErrors = 1
    /\ (forge.pushErrors = 1 /\ wpc = "clear") => forge.result = NoResult
    /\ (forge.pushErrors = 1 /\ wpc = "done") =>
         \/ /\ forge.result.status \in {"commit-success", "commit-warning"}
            /\ forge.result.pushFailed
            /\ forge.clears = 1 /\ journal.current = <<>>
         \/ forge.result = Plain("error") /\ forge.clears = 0
    /\ forge.pushErrors = 1 => wpc = "clear" \/ forge.clears = 1 \/ wpc = "done"

C40_Witness ==
  /\ wf = "forge" /\ wpc = "done"
  /\ forge.pushes = 1 /\ forge.pushErrors = 1
  /\ forge.result = Result("commit-success", NoStep, TRUE, NoAnnotation)
  /\ before.journal.current # <<>> /\ journal.current = <<>>

====
